---- MODULE Spec2Model ----
(***************************************************************************)
(* A model of the client-side state store of the chat client               *)
(* (client/store/index.ts): the chatroom collection, the active chatroom,  *)
(* the UI flags, and the store's actions and derived queries.              *)
(*                                                                         *)
(* Strings are sequences of one-character strings (UTF-16 code units of    *)
(* the ASCII range).  Dates are natural numbers (milliseconds of a clock). *)
(* Identities produced by crypto.randomUUID() are the numbers 1, 2, ... in *)
(* the order of generation: a UUID is never produced twice.                *)
(***************************************************************************)
EXTENDS Integers, Sequences, FiniteSets, TLC

\* ------------------------------------------------------------------ bounds
\* The number of identities crypto.randomUUID() hands out in one behaviour.
MaxUuid == 3
\* The last instant of the clock read by new Date().
MaxClock == 1
\* The most timers of the message list that wait at once.
MaxTimers == 2

\* --------------------------------------------------------------- constants
\* The length above which a derived title is truncated.
TitleLimit == 50

\* `activeChatroomId: string | null`: the value null.
Null == 0
\* A string that is the identity of nothing (no UUID ever equals it).
ForeignId == MaxUuid + 1

\* `lastMessage?: Date`: an optional value is a sequence of length 0 or 1.
undefined == << >>
Some(v) == << v >>

\* ----------------------------------------------------------------- strings
UPPER == << "A", "B", "C", "D", "E", "F", "G", "H", "I", "J", "K", "L", "M",
            "N", "O", "P", "Q", "R", "S", "T", "U", "V", "W", "X", "Y", "Z" >>
LOWER == << "a", "b", "c", "d", "e", "f", "g", "h", "i", "j", "k", "l", "m",
            "n", "o", "p", "q", "r", "s", "t", "u", "v", "w", "x", "y", "z" >>

Min(a, b) == IF a < b THEN a ELSE b

\* n copies of the character c.
Rep(c, n) == [i \in 1..n |-> c]

\* String.prototype.substring(a, b) for 0 <= a <= b: indices are clamped to
\* the length of the string.
substring(s, a, b) == SubSeq(s, Min(a, Len(s)) + 1, Min(b, Len(s)))

toLowerCaseChar(c) ==
    IF \E i \in 1..Len(UPPER) : UPPER[i] = c
    THEN LOWER[CHOOSE i \in 1..Len(UPPER) : UPPER[i] = c]
    ELSE c

\* String.prototype.toLowerCase().
toLowerCase(s) == [i \in 1..Len(s) |-> toLowerCaseChar(s[i])]

\* String.prototype.includes(q): q occurs in s as a contiguous run.
includes(s, q) ==
    \E i \in 0..(Len(s) - Len(q)) : SubSeq(s, i + 1, i + Len(q)) = q

\* The literal "New Chat" and the ellipsis "...".
NewChat == << "N", "e", "w", " ", "C", "h", "a", "t" >>
Ellipsis == << ".", ".", "." >>

\* ------------------------------------------------------------------ inputs
\* The `title?` argument of createChatroom: omitted, empty, or given.
NoTitle == << "<omitted>" >>
Work == << "W", "o", "r", "k" >>
TitleArgs == { NoTitle, << >>, Work }

\* Message contents: short, exactly at the limit, and beyond it.
Hello == << "H", "e", "l", "l", "o" >>
AtLimit == Rep("a", TitleLimit)
OverLimit == Rep("a", TitleLimit) \o << "B", "c" >>

\* What a caller passes as messageData, without its timestamp.
MessageBodies ==
    { [ content |-> AtLimit, sender |-> "ai" ],
      [ content |-> OverLimit, sender |-> "user" ] }

\* What is typed in the chats the sidebar lists.
SidebarBodies == MessageBodies \cup { [ content |-> Hello, sender |-> "user" ] }

\* What is typed in the chats that are persisted.
PersistBodies == { [ content |-> Hello, sender |-> "user" ] }

\* Search queries typed into the sidebar.
Queries == { << >>, << "h", "E" >>, << "A" >>, << "z" >> }

VARIABLES
    chatrooms,          \* AppState.chatrooms: sequence of Chatroom records
    activeChatroomId,   \* AppState.activeChatroomId
    isTyping,           \* AppState.isTyping
    searchQuery,        \* AppState.searchQuery
    isSidebarOpen,      \* AppState.isSidebarOpen
    theme,              \* AppState.theme
    uuids,              \* how many UUIDs crypto.randomUUID() has produced
    now,                \* the clock read by new Date()
    last,               \* the last store action taken (see Record)
    user,               \* AppState.user
    isAuthenticating,   \* AppState.isAuthenticating
    otpSent,            \* AppState.otpSent
    storage,            \* localStorage: the item "gemini-app-storage"
    loadingOlder,       \* MessageList: useState(false)
    hasMoreMessages,    \* MessageList: useState(true)
    page,               \* MessageList: useState(0)
    olderMessages,      \* MessageList: useState([])
    timers,             \* MessageList: the setTimeout callbacks not yet run
    phoneLoading,       \* PhoneLogin: useState(false)
    otpLoading,         \* OtpVerification: useState(false)
    authTimers,         \* the setTimeout callbacks of the auth screens
    replyTimers         \* ChatArea: the setTimeout callbacks not yet run

authVars == << user, isAuthenticating, otpSent >>

\* The state of the MessageList component.
viewVars == << loadingOlder, hasMoreMessages, page, olderMessages, timers >>

\* The state of the auth screens and the timers of ChatArea.
uiVars == << phoneLoading, otpLoading, authTimers, replyTimers >>

vars == << chatrooms, activeChatroomId, isTyping, searchQuery, isSidebarOpen,
           theme, uuids, now, last, user, isAuthenticating, otpSent, storage,
           loadingOlder, hasMoreMessages, page, olderMessages, timers,
           phoneLoading, otpLoading, authTimers, replyTimers >>

\* ----------------------------------------------------------------- helpers
RoomIds(rooms) == { rooms[i].id : i \in 1..Len(rooms) }
RoomById(rooms, id) == rooms[CHOOSE i \in 1..Len(rooms) : rooms[i].id = id]

\* A filter that drops the first chatroom, whatever its id.
filterOut_First(rooms, id) == Tail(rooms)

\* Array.prototype.filter over the chatroom array, keeping rooms whose id
\* differs from id.
RECURSIVE filterOut(_, _)
filterOut(rooms, id) ==
    IF rooms = << >> THEN << >>
    ELSE IF Head(rooms).id # id
         THEN << Head(rooms) >> \o filterOut(Tail(rooms), id)
         ELSE filterOut(Tail(rooms), id)

\* derivedTitle with the comparison off by one: a content of exactly
\* TitleLimit characters is truncated too.
derivedTitle_OffByOne(content) ==
    IF Len(content) >= TitleLimit
    THEN substring(content, 0, TitleLimit) \o Ellipsis
    ELSE content

\* The title addMessage gives a room that had no message.
derivedTitle(content) ==
    IF Len(content) > TitleLimit
    THEN substring(content, 0, TitleLimit) \o Ellipsis
    ELSE content

\* withMessage that sets lastMessage only when the room had none.
withMessage_StaleLast(room, chatroomId, message) ==
    IF room.id = chatroomId
    THEN [ room EXCEPT
             !.messages = Append(room.messages, message),
             !.lastMessage = IF room.lastMessage = undefined
                             THEN Some(message.timestamp)
                             ELSE room.lastMessage,
             !.title = IF Len(room.messages) = 0
                       THEN derivedTitle(message.content)
                       ELSE room.title ]
    ELSE room

\* withMessage that does not compare identities: every room is the target.
withMessage_EveryRoom(room, chatroomId, message) ==
    [ room EXCEPT
        !.messages = Append(room.messages, message),
        !.lastMessage = Some(message.timestamp),
        !.title = IF Len(room.messages) = 0
                  THEN derivedTitle(message.content)
                  ELSE room.title ]

\* withMessage that puts the new message in front of the list.
withMessage_Prepend(room, chatroomId, message) ==
    IF room.id = chatroomId
    THEN [ room EXCEPT
             !.messages = << message >> \o room.messages,
             !.lastMessage = Some(message.timestamp),
             !.title = IF Len(room.messages) = 0
                       THEN derivedTitle(message.content)
                       ELSE room.title ]
    ELSE room

\* The object addMessage maps a room to.
withMessage(room, chatroomId, message) ==
    IF room.id = chatroomId
    THEN [ room EXCEPT
             !.messages = Append(room.messages, message),
             !.lastMessage = Some(message.timestamp),
             !.title = IF Len(room.messages) = 0
                       THEN derivedTitle(message.content)
                       ELSE room.title ]
    ELSE room

\* The record of a store action: its name, its id argument, whether that id
\* named a chatroom and the active one when the action was called, and the
\* value the action returned.
Record(op, id, ret) ==
    [ op |-> op, id |-> id,
      existed |-> \E i \in 1..Len(chatrooms) : chatrooms[i].id = id,
      wasActive |-> activeChatroomId = id,
      ret |-> ret ]

\* ------------------------------------------------------------- persistence
\* `user: User | null`: null is the empty sequence, a user a sequence of one.
NoUser == << >>
\* The user the OTP screen makes.
MockUser ==
    [ id |-> "user-uuid", phone |-> "+1 234 567 8900", countryCode |-> "+1",
      isAuthenticated |-> TRUE ]
Users == { NoUser, Some(MockUser) }

\* The fields of AppState, as one value.
StoreState ==
    [ user |-> user,
      isAuthenticating |-> isAuthenticating,
      otpSent |-> otpSent,
      chatrooms |-> chatrooms,
      activeChatroomId |-> activeChatroomId,
      isTyping |-> isTyping,
      searchQuery |-> searchQuery,
      isSidebarOpen |-> isSidebarOpen,
      theme |-> theme ]

\* The initial state of the store: what the state creator returns.
DefaultState_Dark ==
    [ user |-> NoUser,
      isAuthenticating |-> FALSE,
      otpSent |-> FALSE,
      chatrooms |-> << >>,
      activeChatroomId |-> Null,
      isTyping |-> FALSE,
      searchQuery |-> << >>,
      isSidebarOpen |-> TRUE,
      theme |-> "dark" ]

DefaultState ==
    [ user |-> NoUser,
      isAuthenticating |-> FALSE,
      otpSent |-> FALSE,
      chatrooms |-> << >>,
      activeChatroomId |-> Null,
      isTyping |-> FALSE,
      searchQuery |-> << >>,
      isSidebarOpen |-> TRUE,
      theme |-> "light" ]

DIGITS == << "0", "1", "2", "3", "4", "5", "6", "7", "8", "9" >>
DigitValue(c) == (CHOOSE k \in 1..Len(DIGITS) : DIGITS[k] = c) - 1

\* Date.prototype.toJSON(): the ISO text of a date of the first second after
\* the epoch, "1970-01-01T00:00:00.mmmZ", as the sequence of its date-and-
\* seconds part, the three digits of the milliseconds, and "Z".
toISOString(d) ==
    << "1970-01-01T00:00:00.",
       DIGITS[((d \div 100) % 10) + 1],
       DIGITS[((d \div 10) % 10) + 1],
       DIGITS[(d % 10) + 1],
       "Z" >>

\* new Date(text): the date an ISO text of that form denotes.
NewDate(text) ==
    100 * DigitValue(text[2]) + 10 * DigitValue(text[3]) + DigitValue(text[4])

\* JSON.stringify then JSON.parse of a message: the timestamp is text.
JsonMessage(m) == [ m EXCEPT !.timestamp = toISOString(m.timestamp) ]

\* JSON.stringify then JSON.parse of a chatroom: the dates are text, and a
\* lastMessage that is undefined is no key of the object.
JsonChatroom(room) ==
    [ id |-> room.id,
      title |-> room.title,
      messages |-> [ k \in 1..Len(room.messages) |->
                        JsonMessage(room.messages[k]) ],
      createdAt |-> toISOString(room.createdAt),
      lastMessage |-> IF room.lastMessage = undefined
                      THEN undefined
                      ELSE Some(toISOString(room.lastMessage[1])) ]

\* partialize that also keeps the typing flag.
partialize_WithTyping(state) ==
    [ user |-> state.user,
      chatrooms |-> state.chatrooms,
      activeChatroomId |-> state.activeChatroomId,
      theme |-> state.theme,
      isTyping |-> state.isTyping ]

\* partialize: the part of the state that is persisted.
partialize(state) ==
    [ user |-> state.user,
      chatrooms |-> state.chatrooms,
      activeChatroomId |-> state.activeChatroomId,
      theme |-> state.theme ]

\* JSON.stringify of the value the middleware hands to storage.setItem,
\* { state, version }: every field but chatrooms is its own JSON value.
stringify(value) ==
    [ state |-> [ value.state EXCEPT
                    !.chatrooms = [ i \in 1..Len(value.state.chatrooms) |->
                                      JsonChatroom(value.state.chatrooms[i]) ] ],
      version |-> value.version ]

\* The item of localStorage: absent, a text JSON.parse rejects, or a JSON
\* text (held as the document it denotes).
NoItem == [ kind |-> "none", json |-> << >> ]
Garbage == [ kind |-> "garbage", json |-> << >> ]

\* storage.setItem(name, value)
setItem(value) == [ kind |-> "json", json |-> << stringify(value) >> ]

\* What the persist middleware writes after a change of the state.
Written(state) == setItem([ state |-> partialize(state), version |-> 0 ])

\* storage.getItem with lastMessage rebuilt from the wrong field.
getItem_LastMessageFromCreatedAt(item) ==
    IF item.kind # "json" THEN << >>
    ELSE LET parsed == item.json[1]
             room(r) ==
                 [ r EXCEPT
                     !.createdAt = NewDate(r.createdAt),
                     !.lastMessage = IF r.lastMessage # << >>
                                     THEN Some(NewDate(r.createdAt))
                                     ELSE undefined,
                     !.messages = [ k \in 1..Len(r.messages) |->
                                      [ r.messages[k] EXCEPT !.timestamp =
                                          NewDate(r.messages[k].timestamp) ] ] ]
         IN  << [ parsed EXCEPT !.state.chatrooms =
                    [ i \in 1..Len(parsed.state.chatrooms) |->
                        room(parsed.state.chatrooms[i]) ] ] >>

\* storage.getItem(name): none (the empty sequence) when the item is absent
\* or JSON.parse throws; else the parsed value with its dates rebuilt.
getItem(item) ==
    IF item.kind # "json" THEN << >>
    ELSE LET parsed == item.json[1]
             room(r) ==
                 [ r EXCEPT
                     !.createdAt = NewDate(r.createdAt),
                     !.lastMessage = IF r.lastMessage # << >>
                                     THEN Some(NewDate(r.lastMessage[1]))
                                     ELSE undefined,
                     !.messages = [ k \in 1..Len(r.messages) |->
                                      [ r.messages[k] EXCEPT !.timestamp =
                                          NewDate(r.messages[k].timestamp) ] ] ]
         IN  << [ parsed EXCEPT !.state.chatrooms =
                    [ i \in 1..Len(parsed.state.chatrooms) |->
                        room(parsed.state.chatrooms[i]) ] ] >>

\* The middleware's merge of a persisted state into the current one:
\* { ...currentState, ...persistedState }.
merge(persistedState, currentState) ==
    [ f \in DOMAIN currentState |->
        IF f \in DOMAIN persistedState THEN persistedState[f]
        ELSE currentState[f] ]

\* The state the store has after its construction: the initial state, with
\* what storage.getItem returned merged into it.
hydrated(item) ==
    LET got == getItem(item)
    IN  IF got = << >> THEN DefaultState
        ELSE merge(got[1].state, DefaultState)

\* The persist middleware around an action A of the store: the change of
\* the state is followed by storage.setItem of the partialized new state.
Persisted(A) ==
    A /\ storage' = Written(StoreState') /\ UNCHANGED << viewVars, uiVars >>

\* An action A of the store taken by itself: the state creator without the
\* middleware around it and without a component that renders it.
StoreOnly(A) == A /\ UNCHANGED << storage, viewVars, uiVars >>

\* ------------------------------------------------------------------- Init
Init ==
    /\ chatrooms = << >>
    /\ activeChatroomId = Null
    /\ isTyping = FALSE
    /\ searchQuery = << >>
    /\ isSidebarOpen = TRUE
    /\ theme = "light"
    /\ uuids = 0
    /\ now = 0
    /\ last = [ op |-> "init", id |-> Null, existed |-> FALSE,
                wasActive |-> FALSE, ret |-> Null ]
    /\ user = NoUser
    /\ isAuthenticating = FALSE
    /\ otpSent = FALSE
    /\ storage = Written(DefaultState)
    /\ loadingOlder = FALSE
    /\ hasMoreMessages = TRUE
    /\ page = 0
    /\ olderMessages = << >>
    /\ timers = << >>
    /\ phoneLoading = FALSE
    /\ otpLoading = FALSE
    /\ authTimers = << >>
    /\ replyTimers = << >>

\* ---------------------------------------------------------------- actions
\* The clock advances.
Tick ==
    /\ now < MaxClock
    /\ now' = now + 1
    /\ UNCHANGED << chatrooms, activeChatroomId, isTyping, searchQuery,
                    isSidebarOpen, theme, uuids, last >>
    /\ UNCHANGED authVars

\* createChatroom that puts the new chatroom at the end of the collection.
createChatroom_Append(title) ==
    /\ uuids < MaxUuid
    /\ LET newChatroom ==
               [ id |-> uuids + 1,
                 title |-> IF title = NoTitle \/ title = << >>
                           THEN NewChat ELSE title,
                 messages |-> << >>,
                 createdAt |-> now,
                 lastMessage |-> undefined ]
       IN  /\ chatrooms' = Append(chatrooms, newChatroom)
           /\ activeChatroomId' = newChatroom.id
           /\ last' = Record("createChatroom", Null, newChatroom)
    /\ uuids' = uuids + 1
    /\ UNCHANGED << isTyping, searchQuery, isSidebarOpen, theme, now >>
    /\ UNCHANGED authVars

\* createChatroom(title?)
createChatroom(title) ==
    /\ uuids < MaxUuid
    /\ LET newChatroom ==
               [ id |-> uuids + 1,
                 title |-> IF title = NoTitle \/ title = << >>
                           THEN NewChat ELSE title,
                 messages |-> << >>,
                 createdAt |-> now,
                 lastMessage |-> undefined ]
       IN  /\ chatrooms' = << newChatroom >> \o chatrooms
           /\ activeChatroomId' = newChatroom.id
           /\ last' = Record("createChatroom", Null, newChatroom)
    /\ uuids' = uuids + 1
    /\ UNCHANGED << isTyping, searchQuery, isSidebarOpen, theme, now >>
    /\ UNCHANGED authVars

\* nextActiveChatroomId that selects the last remaining chatroom.
nextActiveChatroomId_Last(remainingChatrooms, active, id) ==
    IF active = id
    THEN IF Len(remainingChatrooms) > 0
         THEN remainingChatrooms[Len(remainingChatrooms)].id
         ELSE Null
    ELSE active

\* nextActiveChatroomId that reselects whichever chatroom was deleted.
nextActiveChatroomId_Always(remainingChatrooms, active, id) ==
    IF Len(remainingChatrooms) > 0 THEN remainingChatrooms[1].id ELSE Null

\* deleteChatroom: newActiveChatroomId, from the remaining chatrooms, the
\* active id and the deleted id.
nextActiveChatroomId(remainingChatrooms, active, id) ==
    IF active = id
    THEN IF Len(remainingChatrooms) > 0
         THEN remainingChatrooms[1].id
         ELSE Null
    ELSE active

\* deleteChatroom without the existence check.
deleteChatroom_Unchecked(id) ==
    /\ chatrooms' = filterOut(chatrooms, id)
    /\ activeChatroomId' =
           nextActiveChatroomId(filterOut(chatrooms, id), activeChatroomId, id)
    /\ isTyping' = FALSE
    /\ last' = Record("deleteChatroom", id, Null)
    /\ UNCHANGED << searchQuery, isSidebarOpen, theme, uuids, now >>
    /\ UNCHANGED authVars

\* deleteChatroom(id)
deleteChatroom(id) ==
    /\ LET chatroomExists == \E i \in 1..Len(chatrooms) : chatrooms[i].id = id
           remainingChatrooms == filterOut(chatrooms, id)
           newActiveChatroomId ==
               nextActiveChatroomId(remainingChatrooms, activeChatroomId, id)
       IN  IF ~chatroomExists
           THEN UNCHANGED << chatrooms, activeChatroomId, isTyping >>
           ELSE /\ chatrooms' = remainingChatrooms
                /\ activeChatroomId' = newActiveChatroomId
                /\ isTyping' = FALSE
    /\ last' = Record("deleteChatroom", id, Null)
    /\ UNCHANGED << searchQuery, isSidebarOpen, theme, uuids, now >>
    /\ UNCHANGED authVars

\* setActiveChatroom(id)
setActiveChatroom(id) ==
    /\ activeChatroomId' = id
    /\ last' = Record("setActiveChatroom", id, Null)
    /\ UNCHANGED << chatrooms, isTyping, searchQuery, isSidebarOpen, theme,
                    uuids, now >>
    /\ UNCHANGED authVars

\* addMessage(chatroomId, messageData)
addMessage(chatroomId, messageData) ==
    /\ uuids < MaxUuid
    /\ LET message ==
               [ id |-> uuids + 1,
                 content |-> messageData.content,
                 sender |-> messageData.sender,
                 timestamp |-> messageData.timestamp ]
       IN  chatrooms' = [ i \in 1..Len(chatrooms) |->
                            withMessage(chatrooms[i], chatroomId, message) ]
    /\ uuids' = uuids + 1
    /\ last' = Record("addMessage", chatroomId, Null)
    /\ UNCHANGED << activeChatroomId, isTyping, searchQuery, isSidebarOpen,
                    theme, now >>
    /\ UNCHANGED authVars

\* setTyping(isTyping)
setTyping(b) ==
    /\ isTyping' = b
    /\ last' = Record("setTyping", Null, Null)
    /\ UNCHANGED << chatrooms, activeChatroomId, searchQuery, isSidebarOpen,
                    theme, uuids, now >>
    /\ UNCHANGED authVars

\* setSearchQuery(query)
setSearchQuery(query) ==
    /\ searchQuery' = query
    /\ last' = Record("setSearchQuery", Null, Null)
    /\ UNCHANGED << chatrooms, activeChatroomId, isTyping, isSidebarOpen,
                    theme, uuids, now >>
    /\ UNCHANGED authVars

\* setSidebarOpen(isOpen)
setSidebarOpen(isOpen) ==
    /\ isSidebarOpen' = isOpen
    /\ last' = Record("setSidebarOpen", Null, Null)
    /\ UNCHANGED << chatrooms, activeChatroomId, isTyping, searchQuery,
                    theme, uuids, now >>
    /\ UNCHANGED authVars

\* setTheme(theme)
setTheme(t) ==
    /\ theme' = t
    /\ last' = Record("setTheme", Null, Null)
    /\ UNCHANGED << chatrooms, activeChatroomId, isTyping, searchQuery,
                    isSidebarOpen, uuids, now >>
    /\ UNCHANGED authVars

\* setUser(user)
setUser(u) ==
    /\ user' = u
    /\ last' = Record("setUser", Null, Null)
    /\ UNCHANGED << chatrooms, activeChatroomId, isTyping, searchQuery,
                    isSidebarOpen, theme, uuids, now, isAuthenticating,
                    otpSent >>

\* setAuthenticating(isAuthenticating)
setAuthenticating(b) ==
    /\ isAuthenticating' = b
    /\ last' = Record("setAuthenticating", Null, Null)
    /\ UNCHANGED << chatrooms, activeChatroomId, isTyping, searchQuery,
                    isSidebarOpen, theme, uuids, now, user, otpSent >>

\* setOtpSent(otpSent)
setOtpSent(b) ==
    /\ otpSent' = b
    /\ last' = Record("setOtpSent", Null, Null)
    /\ UNCHANGED << chatrooms, activeChatroomId, isTyping, searchQuery,
                    isSidebarOpen, theme, uuids, now, user, isAuthenticating >>

\* The page is loaded again: the store is constructed anew and the
\* middleware reads the item and merges what it holds into the initial
\* state (and then writes the result back, see Persisted).  The record keeps
\* what kind of item was read.
Reload ==
    LET state == hydrated(storage)
    IN  /\ user' = state.user
        /\ isAuthenticating' = state.isAuthenticating
        /\ otpSent' = state.otpSent
        /\ chatrooms' = state.chatrooms
        /\ activeChatroomId' = state.activeChatroomId
        /\ isTyping' = state.isTyping
        /\ searchQuery' = state.searchQuery
        /\ isSidebarOpen' = state.isSidebarOpen
        /\ theme' = state.theme
        /\ last' = Record("hydrate", Null, storage.kind)
        /\ UNCHANGED << uuids, now >>

\* The item is removed from localStorage (site data is cleared).
ClearStorage ==
    /\ storage' = NoItem
    /\ last' = Record("clearStorage", Null, Null)
    /\ UNCHANGED << chatrooms, activeChatroomId, isTyping, searchQuery,
                    isSidebarOpen, theme, uuids, now, authVars >>
    /\ UNCHANGED << viewVars, uiVars >>

\* The item is overwritten with a text that is no JSON.
CorruptStorage ==
    /\ storage' = Garbage
    /\ last' = Record("corruptStorage", Null, Null)
    /\ UNCHANGED << chatrooms, activeChatroomId, isTyping, searchQuery,
                    isSidebarOpen, theme, uuids, now, authVars >>
    /\ UNCHANGED << viewVars, uiVars >>

\* getActiveChatroom(): the sequence holding the active room, or none.
getActiveChatroom ==
    IF \E i \in 1..Len(chatrooms) : chatrooms[i].id = activeChatroomId
    THEN Some(chatrooms[CHOOSE i \in 1..Len(chatrooms) :
                           /\ chatrooms[i].id = activeChatroomId
                           /\ \A j \in 1..(i - 1) :
                                 chatrooms[j].id # activeChatroomId])
    ELSE undefined

\* getFilteredChatrooms that lower-cases the title but not the query.
getFilteredChatrooms_CaseSensitive ==
    IF searchQuery = << >> THEN chatrooms
    ELSE LET keep(room) == includes(toLowerCase(room.title), searchQuery)
         IN  SelectSeq(chatrooms, keep)

\* getFilteredChatrooms()
getFilteredChatrooms ==
    IF searchQuery = << >> THEN chatrooms
    ELSE LET keep(room) ==
                 includes(toLowerCase(room.title), toLowerCase(searchQuery))
         IN  SelectSeq(chatrooms, keep)

\* ------------------------------------------------------------ MessageList
MESSAGES_PER_PAGE == 20
\* loadOlderMessages: no request is accepted from this page on.
PageLimit == 10
\* The timer callback: the page whose load ends the history.
LastPage == 9
\* The milliseconds between two synthetic messages.
Minute == 60000

\* `dummy-${chatroomId}-page${page}-${messageIndex}-${Date.now()}-${random}`
uniqueId(chatroomId, p, messageIndex, dateNow, random) ==
    [ chatroomId |-> chatroomId, page |-> p, messageIndex |-> messageIndex,
      now |-> dateNow, random |-> random ]

\* generateDummyMessages(chatroomId, page), with the values Math.random()
\* gives in the iterations of its loop and the values Date.now() gives: each
\* iteration reads the clock twice, for the id and for the timestamp.  The
\* content is the kind of text and the number in it.
generateDummyMessages(chatroomId, p, randoms, clocks) ==
    LET startIndex == p * MESSAGES_PER_PAGE
        message(i) ==
            LET messageIndex == startIndex + i
                isUser == messageIndex % 3 = 0
            IN  [ id |-> uniqueId(chatroomId, p, messageIndex,
                                  clocks[2 * i + 1], randoms[i + 1]),
                  content |-> << IF isUser THEN "This is user message #"
                                 ELSE "This is AI response #",
                                 messageIndex + 1 >>,
                  sender |-> IF isUser THEN "user" ELSE "ai",
                  timestamp |-> clocks[2 * i + 2]
                                  - (messageIndex + 1) * Minute ]
    IN  [ k \in 1..MESSAGES_PER_PAGE |-> message(MESSAGES_PER_PAGE - k) ]

\* The readings of Date.now() in a call of generateDummyMessages during
\* which the clock stands at t.
Steady(t) == [ k \in 1..(2 * MESSAGES_PER_PAGE) |-> t ]

\* The readings of a call that begins at t, the clock advancing by one
\* millisecond before reading number tickAt.
Ticking(t, tickAt) ==
    [ k \in 1..(2 * MESSAGES_PER_PAGE) |-> IF k < tickAt THEN t ELSE t + 1 ]

\* What Math.random() can give in one call of generateDummyMessages, as far
\* as the ids on the list prev can tell: values that are on no message of
\* the list (all such values are alike, the least stands for them), or a
\* value that an earlier call for the same chatroom, page and instant got,
\* again in the first iteration.
RandomDraws(prev, chatroomId, p) ==
    LET used == { prev[k].id.random : k \in 1..Len(prev) }
        unused == CHOOSE n \in 0..Cardinality(used) :
                      n \notin used /\ \A m \in 0..(n - 1) : m \in used
        repeated == { prev[k].id.random : k \in
                        { k \in 1..Len(prev) :
                            /\ prev[k].id.chatroomId = chatroomId
                            /\ prev[k].id.page = p
                            /\ prev[k].id.now = now } }
    IN  { [ i \in 1..MESSAGES_PER_PAGE |-> unused ] }
          \cup { [ i \in 1..MESSAGES_PER_PAGE |->
                     IF i = 1 THEN r ELSE unused ] : r \in repeated }

\* The timer callback never ends the history.
exhausts_Never(newMessages, p) == FALSE

\* The timer callback: newMessages.length < MESSAGES_PER_PAGE || page >= 9
exhausts(newMessages, p) ==
    Len(newMessages) < MESSAGES_PER_PAGE \/ p >= LastPage

\* The functional update of olderMessages that puts the new messages last.
mergeOlder_Append(newMessages, prev) ==
    LET existingIds == { prev[k].id : k \in 1..Len(prev) }
        fresh(msg) == msg.id \notin existingIds
    IN  prev \o SelectSeq(newMessages, fresh)

\* The functional update of olderMessages without its filter.
mergeOlder_Unfiltered(newMessages, prev) == newMessages \o prev

\* The functional update of olderMessages: the new messages whose id is not
\* on the list already, then the list.
mergeOlder(newMessages, prev) ==
    LET existingIds == { prev[k].id : k \in 1..Len(prev) }
        fresh(msg) == msg.id \notin existingIds
    IN  SelectSeq(newMessages, fresh) \o prev

\* The reset effect that always offers older messages.
hasMoreAfterReset_Always(messages) == TRUE

\* The reset effect: setHasMoreMessages(messages.length > 0)
hasMoreAfterReset(messages) ==
    Len(messages) > 0

\* The reset effect with dependencies that never change.
depsChanged_Never(was, is) == FALSE

\* The dependencies of the reset effect, [chatroomId, messages.length], differ
\* between the chatroom of the last render and the one of this render.
depsChanged(was, is) ==
    was.id # is.id \/ Len(was.messages) # Len(is.messages)

\* ChatArea renders MessageList for the active chatroom, if there is one,
\* with its id and its messages; the reset effect runs when the component
\* is mounted and when chatroomId or messages.length has changed.  Without
\* an active chatroom the component is unmounted: its state is gone (the
\* defaults of useState stand for that) and its timers act on nothing.
render ==
    LET was == getActiveChatroom
        is == getActiveChatroom'
    IN  IF is = undefined
        THEN /\ loadingOlder' = FALSE
             /\ hasMoreMessages' = TRUE
             /\ page' = 0
             /\ olderMessages' = << >>
             /\ timers' = << >>
        ELSE IF was = undefined \/ depsChanged(was[1], is[1])
             THEN /\ olderMessages' = << >>
                  /\ page' = 0
                  /\ hasMoreMessages' = hasMoreAfterReset(is[1].messages)
                  /\ loadingOlder' = FALSE
                  /\ UNCHANGED timers
             ELSE UNCHANGED viewVars

\* An action A of the store while ChatArea shows the active chatroom.
Rendered(A) == A /\ UNCHANGED << storage, uiVars >> /\ render

\* loadOlderMessages(), called for the mounted component.
loadOlderMessages ==
    /\ getActiveChatroom # undefined
    /\ LET chatroomId == getActiveChatroom[1].id
           messages == getActiveChatroom[1].messages
       IN  IF loadingOlder \/ ~hasMoreMessages
           THEN UNCHANGED viewVars
           ELSE IF Len(messages) = 0 \/ page >= PageLimit
           THEN /\ hasMoreMessages' = FALSE
                /\ UNCHANGED << loadingOlder, page, olderMessages, timers >>
           ELSE /\ Len(timers) < MaxTimers
                /\ loadingOlder' = TRUE
                /\ timers' = Append(timers, [ chatroomId |-> chatroomId,
                                              page |-> page ])
                /\ UNCHANGED << hasMoreMessages, page, olderMessages >>
    /\ last' = Record("loadOlderMessages", activeChatroomId, Null)
    /\ UNCHANGED << chatrooms, activeChatroomId, isTyping, searchQuery,
                    isSidebarOpen, theme, uuids, now, authVars, storage >>
    /\ UNCHANGED uiVars

\* The callback of setTimeout in loadOlderMessages runs: the timers have
\* the same delay, so the one set first runs first.  It uses the chatroomId
\* and the page of the render in which the load was requested.  The clock
\* is taken to stand still while the page is generated (generatePage is the
\* call with a clock that advances).
setTimeoutCallback ==
    /\ timers # << >>
    /\ LET closure == Head(timers)
       IN  \E randoms \in RandomDraws(olderMessages, closure.chatroomId,
                                      closure.page) :
             LET newMessages ==
                     generateDummyMessages(closure.chatroomId, closure.page,
                                           randoms, Steady(now))
             IN  /\ hasMoreMessages' =
                        IF exhausts(newMessages, closure.page) THEN FALSE
                        ELSE hasMoreMessages
                 /\ olderMessages' = mergeOlder(newMessages, olderMessages)
                 /\ page' = page + 1
                 /\ loadingOlder' = FALSE
                 /\ timers' = Tail(timers)
                 /\ last' = Record("setTimeoutCallback", closure.chatroomId,
                                   closure.page)
    /\ UNCHANGED << chatrooms, activeChatroomId, isTyping, searchQuery,
                    isSidebarOpen, theme, uuids, now, authVars, storage >>
    /\ UNCHANGED uiVars

\* One call of generateDummyMessages by itself, the page it returns held in
\* olderMessages: any chatroom id, any page a load can ask for, and a clock
\* that stands still or advances once during the call.
generatePage ==
    /\ \E chatroomId \in 1..MaxUuid, p \in 0..(PageLimit - 1) :
          \E clocks \in { Steady(now) }
                \cup { Ticking(now, tickAt) :
                         tickAt \in IF now < MaxClock
                                    THEN 1..(2 * MESSAGES_PER_PAGE)
                                    ELSE { } } :
             /\ olderMessages' =
                    generateDummyMessages(chatroomId, p,
                        [ i \in 1..MESSAGES_PER_PAGE |-> 0 ], clocks)
             /\ page' = p
             /\ now' = clocks[2 * MESSAGES_PER_PAGE]
             /\ last' = Record("generateDummyMessages", chatroomId, p)
    /\ UNCHANGED << chatrooms, activeChatroomId, isTyping, searchQuery,
                    isSidebarOpen, theme, uuids, authVars, storage,
                    loadingOlder, hasMoreMessages, timers >>
    /\ UNCHANGED uiVars

\* ------------------------------------------------------------ auth screens
\* `user?.isAuthenticated`
Authenticated(u) == u # NoUser /\ u[1].isAuthenticated

\* AuthWrapper that looks at otpSent before it looks at the user.
screen_OtpFirst ==
    IF otpSent THEN "otp"
    ELSE IF ~Authenticated(user) THEN "phone" ELSE "chat"

\* AuthWrapper: what is rendered, PhoneLogin, OtpVerification or the
\* children (the chat layout).
screen ==
    IF ~Authenticated(user)
    THEN IF otpSent THEN "otp" ELSE "phone"
    ELSE "chat"

\* The `loading` states of PhoneLogin and OtpVerification after a step that
\* would leave them as phone and otp: a component that is not rendered
\* before and after the step has no state, and starts with false.
authRender(phone, otp) ==
    /\ phoneLoading' = (screen = "phone" /\ screen' = "phone" /\ phone)
    /\ otpLoading' = (screen = "otp" /\ screen' = "otp" /\ otp)

\* The store variables the auth screens leave alone.
chatVars == << chatrooms, activeChatroomId, isTyping, searchQuery,
               isSidebarOpen, theme, uuids, now >>

\* PhoneLogin: onSubmit, the form being valid; the button is disabled while
\* loading.
PhoneLogin_onSubmit ==
    /\ screen = "phone"
    /\ ~phoneLoading
    /\ isAuthenticating' = TRUE
    /\ authTimers' = Append(authTimers, "sendOtp")
    /\ last' = Record("PhoneLogin.onSubmit", Null, Null)
    /\ UNCHANGED << user, otpSent, chatVars, viewVars, replyTimers >>
    /\ authRender(TRUE, otpLoading)

\* PhoneLogin: the callback of setTimeout in onSubmit.  The timers of the
\* auth screens have the same delay, so the one set first runs first.
sendOtpTimeout ==
    /\ authTimers # << >>
    /\ Head(authTimers) = "sendOtp"
    /\ authTimers' = Tail(authTimers)
    /\ otpSent' = TRUE
    /\ last' = Record("sendOtpTimeout", Null, Null)
    /\ UNCHANGED << user, isAuthenticating, chatVars, viewVars, replyTimers >>
    /\ authRender(FALSE, otpLoading)

\* OtpVerification: onSubmit, six digits being entered; the button is
\* disabled while loading.
OtpVerification_onSubmit ==
    /\ screen = "otp"
    /\ ~otpLoading
    /\ authTimers' = Append(authTimers, "verifyOtp")
    /\ last' = Record("OtpVerification.onSubmit", Null, Null)
    /\ UNCHANGED << authVars, chatVars, viewVars, replyTimers >>
    /\ authRender(phoneLoading, TRUE)

\* OtpVerification: the callback of setTimeout in onSubmit.
verifyOtpTimeout ==
    /\ authTimers # << >>
    /\ Head(authTimers) = "verifyOtp"
    /\ authTimers' = Tail(authTimers)
    /\ user' = Some(MockUser)
    /\ otpSent' = FALSE
    /\ isAuthenticating' = FALSE
    /\ last' = Record("verifyOtpTimeout", Null, Null)
    /\ UNCHANGED << chatVars, viewVars, replyTimers >>
    /\ authRender(phoneLoading, FALSE)

\* OtpVerification: goBack, the Back button.
goBack ==
    /\ screen = "otp"
    /\ otpSent' = FALSE
    /\ isAuthenticating' = FALSE
    /\ last' = Record("goBack", Null, Null)
    /\ UNCHANGED << user, chatVars, viewVars, authTimers, replyTimers >>
    /\ authRender(phoneLoading, otpLoading)

\* The page is loaded again while the app is in use: the store is built
\* from the saved item, and the components and their timers are new.
ReloadPage ==
    /\ Reload
    /\ phoneLoading' = FALSE
    /\ otpLoading' = FALSE
    /\ authTimers' = << >>
    /\ replyTimers' = << >>
    /\ UNCHANGED viewVars

\* The middleware's write after an action of the auth screens.
Saved(A) == A /\ storage' = Written(StoreState')

\* An action A of the store called from the chat layout.
FromChatLayout(A) ==
    screen = "chat" /\ A /\ storage' = Written(StoreState')
      /\ UNCHANGED << viewVars, uiVars >>

\* ------------------------------------------------------------- AI replies
\* handleSendMessage: aiResponses, each text stood for by its position.
aiResponses == [ k \in 1..6 |-> << "aiResponses", k >> ]

\* The UUIDs that sending may use up; the replies that are pending use
\* theirs beyond it.
MaxSendUuid == MaxUuid + 1

\* The chatroom the reply of a timer is added to, were it the one that is
\* active when the timer runs.
replyChatroomId_Active(closure) == activeChatroomId

\* The chatroom the reply of a timer is added to: the chatroomId of
\* handleSendMessage, which the callback closes over.
replyChatroomId(closure) ==
    closure.chatroomId

\* ChatArea: handleSendMessage with a message typed and no image.  Without
\* an active chatroom the empty state is shown, whose input is never
\* disabled; in a chatroom the input and the button are disabled while
\* isTyping.  The chatroom is created when there is none, the message is
\* added to it, isTyping is set and the timer of the reply is set; handle
\* tells the timers apart, as the value setTimeout returns does.
handleSendMessage(text) ==
    LET activeChatroom == getActiveChatroom
        creates == activeChatroom = undefined
        newChatroom ==
            [ id |-> uuids + 1,
              title |-> NewChat,
              messages |-> << >>,
              createdAt |-> now,
              lastMessage |-> undefined ]
        created == IF creates THEN << newChatroom >> \o chatrooms
                   ELSE chatrooms
        chatroomId == IF creates THEN newChatroom.id ELSE activeChatroom[1].id
        used == IF creates THEN uuids + 1 ELSE uuids
        userMessage ==
            [ id |-> used + 1,
              content |-> text,
              sender |-> "user",
              timestamp |-> now ]
    IN  /\ screen = "chat"
        /\ creates \/ ~isTyping
        /\ used + 1 <= MaxSendUuid
        /\ chatrooms' = [ i \in 1..Len(created) |->
                            withMessage(created[i], chatroomId, userMessage) ]
        /\ activeChatroomId' = IF creates THEN newChatroom.id
                               ELSE activeChatroomId
        /\ uuids' = used + 1
        /\ isTyping' = TRUE
        /\ replyTimers' = Append(replyTimers,
                                 [ chatroomId |-> chatroomId,
                                   handle |-> userMessage.id ])
        /\ last' = Record("handleSendMessage", chatroomId, creates)
        /\ UNCHANGED << searchQuery, isSidebarOpen, theme, now >>
        /\ UNCHANGED << authVars, storage, viewVars >>
        /\ UNCHANGED << phoneLoading, otpLoading, authTimers >>

\* The callback of the reply timer without its setTyping(false).
replyTimeout_StillTyping(handle) ==
    \E i \in 1..Len(replyTimers), k \in 1..Len(aiResponses) :
        LET closure == replyTimers[i]
            aiMessage ==
                [ id |-> uuids + 1,
                  content |-> aiResponses[k],
                  sender |-> "ai",
                  timestamp |-> now ]
        IN  /\ closure.handle = handle
            /\ replyTimers' = [ j \in 1..(Len(replyTimers) - 1) |->
                                  IF j < i THEN replyTimers[j]
                                  ELSE replyTimers[j + 1] ]
            /\ chatrooms' = [ j \in 1..Len(chatrooms) |->
                                withMessage(chatrooms[j],
                                            replyChatroomId(closure),
                                            aiMessage) ]
            /\ uuids' = uuids + 1
            /\ last' = Record("replyTimeout", closure.chatroomId, handle)
            /\ UNCHANGED << activeChatroomId, isTyping, searchQuery,
                            isSidebarOpen, theme, now >>
            /\ UNCHANGED << authVars, storage, viewVars >>
            /\ UNCHANGED << phoneLoading, otpLoading, authTimers >>

\* ChatArea: the callback of setTimeout in handleSendMessage, for the timer
\* with the given handle.  The delays are random, so the timers run in any
\* order.
replyTimeout(handle) ==
    \E i \in 1..Len(replyTimers), k \in 1..Len(aiResponses) :
        LET closure == replyTimers[i]
            aiMessage ==
                [ id |-> uuids + 1,
                  content |-> aiResponses[k],
                  sender |-> "ai",
                  timestamp |-> now ]
        IN  /\ closure.handle = handle
            /\ replyTimers' = [ j \in 1..(Len(replyTimers) - 1) |->
                                  IF j < i THEN replyTimers[j]
                                  ELSE replyTimers[j + 1] ]
            /\ chatrooms' = [ j \in 1..Len(chatrooms) |->
                                withMessage(chatrooms[j],
                                            replyChatroomId(closure),
                                            aiMessage) ]
            /\ uuids' = uuids + 1
            /\ isTyping' = FALSE
            /\ last' = Record("replyTimeout", closure.chatroomId, handle)
            /\ UNCHANGED << activeChatroomId, searchQuery, isSidebarOpen,
                            theme, now >>
            /\ UNCHANGED << authVars, storage, viewVars >>
            /\ UNCHANGED << phoneLoading, otpLoading, authTimers >>

\* The handles a timer may have.
Handles == 1..MaxSendUuid

\* An action A of the store called from the sidebar of the chat layout.
FromSidebar(A) ==
    screen = "chat" /\ A /\ UNCHANGED << storage, viewVars, uiVars >>

\* An action A of the auth screens, the item in storage left aside.
SigningIn(A) == A /\ UNCHANGED storage

\* The identities a caller of the store can name: the id of each chatroom
\* of the collection, and an id that names none (the store treats every such
\* id alike: a string that is no UUID, the id of a deleted chatroom, the id
\* of a message).
CallerIds == RoomIds(chatrooms) \cup { ForeignId }

\* The messageData a caller passes: a body with the date of any instant up
\* to the present one.
MessageDataOf(bodies) ==
    { [ content |-> b.content, sender |-> b.sender, timestamp |-> t ] :
        b \in bodies, t \in 0..now }

MessageData == MessageDataOf(MessageBodies)

\* The chat actions of the store, called with any arguments.
Next ==
    \/ StoreOnly(Tick)
    \/ \E title \in TitleArgs : StoreOnly(createChatroom(title))
    \/ \E id \in CallerIds : StoreOnly(deleteChatroom(id))
    \/ \E id \in CallerIds : StoreOnly(setActiveChatroom(id))
    \/ \E id \in CallerIds, m \in MessageData : StoreOnly(addMessage(id, m))
    \/ \E b \in BOOLEAN : StoreOnly(setTyping(b))

Spec == Init /\ [][Next]_vars

\* The sidebar: chatrooms are created, named by their first message,
\* selected and deleted while the search query and the UI preferences change.
NextSidebar ==
    \/ \E title \in TitleArgs : StoreOnly(createChatroom(title))
    \/ \E id \in CallerIds : StoreOnly(deleteChatroom(id))
    \/ \E id \in CallerIds, m \in MessageDataOf(SidebarBodies) :
          StoreOnly(addMessage(id, m))
    \/ \E id \in RoomIds(chatrooms) : StoreOnly(setActiveChatroom(id))
    \/ \E q \in Queries : StoreOnly(setSearchQuery(q))
    \/ \E b \in BOOLEAN : StoreOnly(setSidebarOpen(b))
    \/ \E t \in { "light", "dark" } : StoreOnly(setTheme(t))

SpecSidebar == Init /\ [][NextSidebar]_vars

\* Persistence: the store is used with the middleware around it, the page is
\* loaded again, and the item is removed or damaged from outside.
NextPersist ==
    \/ StoreOnly(Tick)
    \/ Persisted(createChatroom(NoTitle))
    \/ \E id \in RoomIds(chatrooms), m \in MessageDataOf(PersistBodies) :
          Persisted(addMessage(id, m))
    \/ \E u \in Users : Persisted(setUser(u))
    \/ \E t \in { "light", "dark" } : Persisted(setTheme(t))
    \/ \E b \in BOOLEAN : Persisted(setOtpSent(b))
    \/ \E b \in BOOLEAN : Persisted(setTyping(b))
    \/ Persisted(Reload)
    \/ ClearStorage
    \/ CorruptStorage

SpecPersist == Init /\ [][NextPersist]_vars

\* The message list: chatrooms are created, written to and deleted while
\* older messages are requested and loads complete.  The viewed chatroom
\* changes when a chatroom is created (the new one is viewed) and when the
\* viewed one is deleted (the first remaining one is viewed).
NextView ==
    \/ Rendered(createChatroom(NoTitle))
    \/ \E id \in RoomIds(chatrooms), m \in MessageDataOf(PersistBodies) :
          Rendered(addMessage(id, m))
    \/ \E id \in RoomIds(chatrooms) : Rendered(deleteChatroom(id))
    \/ loadOlderMessages
    \/ setTimeoutCallback

SpecView == Init /\ [][NextView]_vars

\* Scrolling back through one chatroom as time passes: once a load has been
\* requested the store is left alone.
Untouched == page = 0 /\ ~loadingOlder /\ timers = << >>

NextScroll ==
    \/ Rendered(Tick)
    \/ Untouched /\ Rendered(createChatroom(NoTitle))
    \/ \E id \in RoomIds(chatrooms), m \in MessageDataOf(PersistBodies) :
          Untouched /\ Rendered(addMessage(id, m))
    \/ loadOlderMessages
    \/ setTimeoutCallback

SpecScroll == Init /\ [][NextScroll]_vars

\* generateDummyMessages called again and again as time passes.
NextPage ==
    \/ StoreOnly(Tick)
    \/ generatePage

SpecPage == Init /\ [][NextPage]_vars

\* Signing in: the phone number is submitted, the code is verified or Back
\* is pressed, timers run, the page is loaded again, and the chat layout,
\* once shown, is used.
NextAuth ==
    \/ Saved(PhoneLogin_onSubmit)
    \/ Saved(sendOtpTimeout)
    \/ Saved(OtpVerification_onSubmit)
    \/ Saved(verifyOtpTimeout)
    \/ Saved(goBack)
    \/ Saved(ReloadPage)
    \/ FromChatLayout(createChatroom(NoTitle))
    \/ \E id \in RoomIds(chatrooms) : FromChatLayout(deleteChatroom(id))
    \/ \E t \in { "light", "dark" } : FromChatLayout(setTheme(t))

SpecAuth == Init /\ [][NextAuth]_vars

\* The chat layout in use after signing in: messages are sent, their reply
\* timers run, and chatrooms are created, selected and deleted from the
\* sidebar.
NextChat ==
    \/ SigningIn(PhoneLogin_onSubmit)
    \/ SigningIn(sendOtpTimeout)
    \/ SigningIn(OtpVerification_onSubmit)
    \/ SigningIn(verifyOtpTimeout)
    \/ handleSendMessage(Hello)
    \/ \E handle \in Handles : replyTimeout(handle)
    \/ FromSidebar(createChatroom(NoTitle))
    \/ \E id \in RoomIds(chatrooms) : FromSidebar(setActiveChatroom(id))
    \/ \E id \in RoomIds(chatrooms) : FromSidebar(deleteChatroom(id))

SpecChat == Init /\ [][NextChat]_vars

\* Every timer that is set runs: its delay is below 3.5 seconds.
SpecChatFair ==
    SpecChat /\ \A handle \in Handles : WF_vars(replyTimeout(handle))

\* =================================================================== claims
\* a is a prefix of b.
IsPrefix(a, b) == Len(a) <= Len(b) /\ \A k \in 1..Len(a) : a[k] = b[k]

\* The chatroom the last action named, when it is in the collection.
LastRoom == RoomById(chatrooms, last.id)

\* ----------------------------------------------------------------------- C1
\* C1: in every state reachable by the store actions createChatroom,
\* deleteChatroom, setActiveChatroom and addMessage, activeChatroomId is null
\* or the id of a chatroom of the collection.
C1_ActiveIdIsNullOrExisting ==
    activeChatroomId = Null \/ activeChatroomId \in RoomIds(chatrooms)

\* ----------------------------------------------------------------------- C2
\* C2: deleteChatroom(id) of the active chatroom makes active the remaining
\* chatroom that was created last (no remaining chatroom has a later creation
\* time, and none was created after it), and makes the active id null when no
\* chatroom remains.
C2_DeleteActiveReselects ==
    [][ \A id \in CallerIds :
          ( /\ deleteChatroom(id)
            /\ activeChatroomId = id
            /\ id \in RoomIds(chatrooms) )
          => LET others == { i \in 1..Len(chatrooms) : chatrooms[i].id # id }
             IN  IF others = { }
                 THEN activeChatroomId' = Null
                 ELSE \E i \in others :
                        /\ activeChatroomId' = chatrooms[i].id
                        /\ activeChatroomId' \in RoomIds(chatrooms')
                        /\ \A j \in others :
                              /\ chatrooms[j].createdAt <= chatrooms[i].createdAt
                              /\ chatrooms[j].id <= chatrooms[i].id ]_vars

\* The active chatroom was deleted while two others remained, and the one
\* created last of the two is now active.
C2_Witness ==
    /\ last.op = "deleteChatroom"
    /\ last.existed
    /\ last.wasActive
    /\ Len(chatrooms) >= 2
    /\ activeChatroomId = chatrooms[1].id
    /\ chatrooms[1].id > chatrooms[2].id

\* ----------------------------------------------------------------------- C3
\* C3: deleteChatroom(id) with an id that names no chatroom changes no field
\* of the store: not the collection, not the active id, not isTyping, not
\* the search query, the sidebar flag or the theme.
C3_DeleteUnknownIsNoOp ==
    [][ \A id \in CallerIds :
          ( deleteChatroom(id) /\ id \notin RoomIds(chatrooms) )
          => UNCHANGED << chatrooms, activeChatroomId, isTyping, searchQuery,
                          isSidebarOpen, theme >> ]_vars

\* deleteChatroom was called with an unknown id while a chatroom existed and
\* the typing flag was set; the flag is still set.
C3_Witness ==
    /\ last.op = "deleteChatroom"
    /\ ~last.existed
    /\ isTyping = TRUE
    /\ Len(chatrooms) >= 1
    /\ activeChatroomId \in RoomIds(chatrooms)

\* ----------------------------------------------------------------------- C4
\* C4: addMessage to a chatroom without messages sets the title to the
\* content, or to its first TitleLimit characters followed by "..." when the
\* content is longer; no step changes the title of a chatroom that has a
\* message.
C4_TitleFromFirstMessage ==
    [][ /\ \A id \in CallerIds, m \in MessageData :
             ( /\ addMessage(id, m)
               /\ id \in RoomIds(chatrooms)
               /\ RoomById(chatrooms, id).messages = << >> )
             => LET t == RoomById(chatrooms', id).title
                    c == m.content
                IN  IF Len(c) <= TitleLimit
                    THEN t = c
                    ELSE /\ Len(t) = TitleLimit + 3
                         /\ \A k \in 1..TitleLimit : t[k] = c[k]
                         /\ \A k \in (TitleLimit + 1)..(TitleLimit + 3) :
                               t[k] = "."
        /\ \A i \in 1..Len(chatrooms), j \in 1..Len(chatrooms') :
             ( /\ chatrooms[i].id = chatrooms'[j].id
               /\ chatrooms[i].messages # << >> )
             => chatrooms'[j].title = chatrooms[i].title ]_vars

\* A second message was added to a chatroom whose first message was longer
\* than the limit: the title is still the truncated first content.
C4_Witness ==
    /\ last.op = "addMessage"
    /\ last.existed
    /\ Len(LastRoom.messages) = 2
    /\ LastRoom.messages[1].content = OverLimit
    /\ LastRoom.messages[2].content = AtLimit
    /\ LastRoom.title = Rep("a", TitleLimit) \o << ".", ".", "." >>

\* ----------------------------------------------------------------------- C5
\* C5: a chatroom created with an explicitly provided title keeps that title
\* when its first message is appended.  (A chatroom without messages has the
\* title "New Chat" exactly when none was provided.)
C5_ExplicitTitleKept ==
    [][ \A id \in CallerIds, m \in MessageData :
          ( /\ addMessage(id, m)
            /\ id \in RoomIds(chatrooms)
            /\ RoomById(chatrooms, id).messages = << >>
            /\ RoomById(chatrooms, id).title # NewChat )
          => RoomById(chatrooms', id).title = RoomById(chatrooms, id).title
      ]_vars

\* ----------------------------------------------------------------------- C6
\* C6: createChatroom makes a chatroom without messages whose id is the id
\* of no existing chatroom, puts it in front of the existing chatrooms, which
\* keep their order, makes it the active one and returns it; chatroom ids
\* stay pairwise different.
C6_CreatePrepends ==
    [][ \A title \in TitleArgs :
          createChatroom(title)
          => /\ Len(chatrooms') = Len(chatrooms) + 1
             /\ chatrooms'[1].messages = << >>
             /\ chatrooms'[1].id \notin RoomIds(chatrooms)
             /\ \A i \in 1..Len(chatrooms) : chatrooms'[i + 1] = chatrooms[i]
             /\ activeChatroomId' = chatrooms'[1].id
             /\ last'.ret = chatrooms'[1]
             /\ Cardinality(RoomIds(chatrooms')) = Len(chatrooms') ]_vars

\* A chatroom was created while another existed: it is first and active.
C6_Witness ==
    /\ last.op = "createChatroom"
    /\ Len(chatrooms) >= 2
    /\ last.ret = chatrooms[1]
    /\ activeChatroomId = chatrooms[1].id
    /\ chatrooms[2].messages # << >>

\* ----------------------------------------------------------------------- C7
\* C7: addMessage(chatroomId, m) on an existing chatroom appends one message
\* with m's content, sender and timestamp at the end of its list and sets
\* its lastMessage to m's timestamp, leaving the other chatrooms as they
\* were; in every state lastMessage is absent exactly for the chatrooms
\* without messages and is else the timestamp of the last message.
LastMessageTracksTail ==
    \A i \in 1..Len(chatrooms) :
       LET room == chatrooms[i]
       IN  IF room.messages = << >>
           THEN room.lastMessage = undefined
           ELSE room.lastMessage =
                   << room.messages[Len(room.messages)].timestamp >>

C7_AddMessageAppends ==
    [][ /\ \A id \in CallerIds, m \in MessageData :
             ( addMessage(id, m) /\ id \in RoomIds(chatrooms) )
             => /\ Len(chatrooms') = Len(chatrooms)
                /\ \A i \in 1..Len(chatrooms) :
                      IF chatrooms[i].id = id
                      THEN LET old == chatrooms[i].messages
                               new == chatrooms'[i].messages
                           IN  /\ Len(new) = Len(old) + 1
                               /\ \A k \in 1..Len(old) : new[k] = old[k]
                               /\ new[Len(new)].content = m.content
                               /\ new[Len(new)].sender = m.sender
                               /\ new[Len(new)].timestamp = m.timestamp
                               /\ chatrooms'[i].lastMessage = << m.timestamp >>
                               /\ chatrooms'[i].id = id
                               /\ chatrooms'[i].createdAt = chatrooms[i].createdAt
                      ELSE chatrooms'[i] = chatrooms[i]
        /\ LastMessageTracksTail' ]_vars

\* A second message with an earlier timestamp than the first was appended:
\* lastMessage is the second one's timestamp.
C7_Witness ==
    /\ last.op = "addMessage"
    /\ last.existed
    /\ Len(LastRoom.messages) = 2
    /\ LastRoom.messages[2].timestamp < LastRoom.messages[1].timestamp
    /\ LastRoom.lastMessage = << LastRoom.messages[2].timestamp >>

\* ----------------------------------------------------------------------- C8
\* C8: addMessage with a chatroomId that names no chatroom changes no
\* chatroom and not the active id (nor any flag of the store).
C8_AddMessageUnknownIsNoOp ==
    [][ \A id \in CallerIds, m \in MessageData :
          ( addMessage(id, m) /\ id \notin RoomIds(chatrooms) )
          => UNCHANGED << chatrooms, activeChatroomId, isTyping, searchQuery,
                          isSidebarOpen, theme >> ]_vars

\* addMessage was called with an unknown id while a chatroom with a message
\* existed.
C8_Witness ==
    /\ last.op = "addMessage"
    /\ ~last.existed
    /\ Len(chatrooms) >= 1
    /\ chatrooms[1].messages # << >>

\* ----------------------------------------------------------------------- C9
\* C9: across every store action, the message list of a chatroom that
\* exists before and after the action is before a prefix of what it is after.
C9_MessagesAppendOnly ==
    [][ \A i \in 1..Len(chatrooms), j \in 1..Len(chatrooms') :
          chatrooms[i].id = chatrooms'[j].id
          => IsPrefix(chatrooms[i].messages, chatrooms'[j].messages) ]_vars

\* A second, different message was appended to a chatroom.
C9_Witness ==
    /\ last.op = "addMessage"
    /\ last.existed
    /\ Len(LastRoom.messages) = 2
    /\ LastRoom.messages[1].content # LastRoom.messages[2].content

\* ---------------------------------------------------------------------- C10
\* Two characters are the same letter, case apart.
SameLetter(c, d) ==
    c = d \/ \E i \in 1..Len(UPPER) : { c, d } = { UPPER[i], LOWER[i] }

\* q occurs in title as a contiguous run, case apart.
ContainsIgnoringCase(title, q) ==
    \E off \in 0..(Len(title) - Len(q)) :
       \A k \in 1..Len(q) : SameLetter(title[off + k], q[k])

\* Where the chatroom with this id stands in the collection.
PositionOf(id) == CHOOSE i \in 1..Len(chatrooms) : chatrooms[i].id = id

\* C10: getFilteredChatrooms returns the whole collection when the search
\* query is empty; else exactly the chatrooms whose title contains the query
\* as a case-insensitive substring, in the order of the collection (so the
\* empty sequence when no title matches).
C10_FilteredChatrooms ==
    LET res == getFilteredChatrooms
        matching == { i \in 1..Len(chatrooms) :
                        ContainsIgnoringCase(chatrooms[i].title, searchQuery) }
    IN  IF searchQuery = << >>
        THEN res = chatrooms
        ELSE /\ Len(res) = Cardinality(matching)
             /\ \A i \in matching : \E a \in 1..Len(res) : res[a] = chatrooms[i]
             /\ \A a \in 1..Len(res) :
                   /\ res[a].id \in RoomIds(chatrooms)
                   /\ PositionOf(res[a].id) \in matching
                   /\ res[a] = chatrooms[PositionOf(res[a].id)]
             /\ \A a, b \in 1..Len(res) :
                   a < b => PositionOf(res[a].id) < PositionOf(res[b].id)
             /\ (matching = { }) => res = << >>

\* The query "hE" selects the chatroom titled "Hello" and not the others.
C10_Witness ==
    /\ searchQuery = << "h", "E" >>
    /\ Len(chatrooms) >= 2
    /\ Len(getFilteredChatrooms) = 1
    /\ getFilteredChatrooms[1].title = Hello
    /\ chatrooms[1].title # Hello

\* ------------------------------------------------------------------- C11
\* C11: loading the item the store saved gives the persisted fields back
\* unchanged: the same user, active id and theme, and the same chatrooms in
\* the same order with the same titles, every createdAt, lastMessage and
\* message timestamp the same instant as before (a date, not its text), and
\* a lastMessage that was absent still absent.
C11_RoundTrip ==
    [][ Persisted(Reload) /\ storage.kind = "json"
          => /\ user' = user
             /\ activeChatroomId' = activeChatroomId
             /\ theme' = theme
             /\ chatrooms' = chatrooms
             /\ \A i \in 1..Len(chatrooms) :
                   /\ chatrooms'[i].createdAt \in Int
                   /\ chatrooms[i].lastMessage = undefined
                        => chatrooms'[i].lastMessage = undefined ]_vars

\* A page load that read a saved item with a user, the dark theme, a
\* chatroom whose lastMessage is later than its creation and a chatroom
\* without lastMessage.
C11_Witness ==
    /\ last.op = "hydrate"
    /\ last.ret = "json"
    /\ user # NoUser
    /\ theme = "dark"
    /\ \E i \in 1..Len(chatrooms) :
          /\ chatrooms[i].lastMessage # undefined
          /\ chatrooms[i].lastMessage[1] # chatrooms[i].createdAt
    /\ \E i \in 1..Len(chatrooms) : chatrooms[i].lastMessage = undefined

\* ------------------------------------------------------------------- C12
\* The fields of the state that are no part of what is persisted.
TransientFields ==
    { "isTyping", "searchQuery", "otpSent", "isAuthenticating",
      "isSidebarOpen" }

\* C12: after an action of the store (and after a page load) the saved item
\* holds the projection of the current state onto user, chatrooms,
\* activeChatroomId and theme, exactly those four, and none of isTyping,
\* searchQuery, otpSent, isAuthenticating and isSidebarOpen.
C12_SavedIsProjection ==
    last.op \notin { "init", "clearStorage", "corruptStorage" }
      => /\ storage.kind = "json"
         /\ DOMAIN storage.json[1].state
              = { "user", "chatrooms", "activeChatroomId", "theme" }
         /\ TransientFields \cap DOMAIN storage.json[1].state = { }
         /\ getItem(storage)[1].state
              = [ user |-> user,
                  chatrooms |-> chatrooms,
                  activeChatroomId |-> activeChatroomId,
                  theme |-> theme ]

\* The typing flag was set while there were a user and a chatroom with a
\* message to save.
C12_Witness ==
    /\ last.op = "setTyping"
    /\ isTyping
    /\ otpSent
    /\ user # NoUser
    /\ \E i \in 1..Len(chatrooms) : Len(chatrooms[i].messages) > 0

\* ------------------------------------------------------------------- C13
\* C13: a page load that finds no item, or an item that is no JSON, leaves
\* the store with its defaults: no user, no chatrooms, no active chatroom
\* and the light theme.
C13_NoItemGivesDefaults ==
    last.op = "hydrate" /\ last.ret \in { "none", "garbage" }
      => /\ user = NoUser
         /\ chatrooms = << >>
         /\ activeChatroomId = Null
         /\ theme = "light"
         /\ getItem(NoItem) = << >>
         /\ getItem(Garbage) = << >>

\* A page load that read a damaged item, after chatrooms had been created.
C13_Witness ==
    /\ last.op = "hydrate"
    /\ last.ret = "garbage"
    /\ uuids > 0
    /\ chatrooms = << >>

\* ------------------------------------------------------------------- C14
\* C14: while a chatroom with at least one real message is viewed and
\* older messages are requested again and again, the list holds the pages
\* 0 .. page-1, newest page first, 20 messages each; there are never more
\* than 10 pages; has-more is true before the tenth page is loaded and false
\* after it; and with 10 pages (200 messages) loaded no load is pending or
\* scheduled any more.
C14_TenPagesThenExhausted ==
    getActiveChatroom # undefined /\ Len(getActiveChatroom[1].messages) >= 1
      => /\ page <= 10
         /\ Len(olderMessages) = 20 * page
         /\ \A k \in 1..Len(olderMessages) :
               olderMessages[k].id.page = (page - 1) - ((k - 1) \div 20)
         /\ hasMoreMessages <=> page < 10
         /\ page = 10 => /\ Len(olderMessages) = 200
                         /\ ~loadingOlder
                         /\ timers = << >>

\* Ten pages are loaded and older messages were requested once more.
C14_Witness ==
    /\ last.op = "loadOlderMessages"
    /\ page = 10
    /\ Len(olderMessages) = 200
    /\ ~hasMoreMessages
    /\ timers = << >>

\* ------------------------------------------------------------------- C15
\* C15: no two loads for the same chatroom are in flight at once.
C15_AtMostOneInFlight ==
    \A i, j \in 1..Len(timers) :
        i # j => timers[i].chatroomId # timers[j].chatroomId

\* ------------------------------------------------------------------- C16
\* C16: once ten pages are loaded and has-more is false, has-more stays
\* false for as long as the same chatroom is viewed.
C16_ExhaustedStays ==
    [][ ( /\ page >= 10
          /\ ~hasMoreMessages
          /\ getActiveChatroom # undefined
          /\ getActiveChatroom' # undefined
          /\ getActiveChatroom'[1].id = getActiveChatroom[1].id )
          => ~hasMoreMessages' ]_vars

\* ------------------------------------------------------------------- C17
\* C17: the completion of a load requested for a chatroom other than the
\* one now viewed adds no message and leaves the page counter and has-more
\* as they are.
C17_StaleCompletionDropped ==
    [][ ( /\ setTimeoutCallback
          /\ getActiveChatroom # undefined
          /\ Head(timers).chatroomId # getActiveChatroom[1].id )
          => UNCHANGED << olderMessages, page, hasMoreMessages >> ]_vars

\* ------------------------------------------------------------------- C18
\* C18: the list of older messages never holds more than 200 messages.
C18_AtMostTenPages == Len(olderMessages) <= 200

\* ------------------------------------------------------------------- C19
\* C19: whenever the viewed chatroom has no real message has-more is false,
\* and a request for older messages then schedules no timer, starts no load
\* and adds no message.
C19_EmptyChatroomOffersNothing ==
    [][ /\ ( /\ getActiveChatroom' # undefined
             /\ Len(getActiveChatroom'[1].messages) = 0 )
             => ~hasMoreMessages'
        /\ ( /\ loadOlderMessages
             /\ Len(getActiveChatroom[1].messages) = 0 )
             => /\ ~hasMoreMessages
                /\ UNCHANGED viewVars ]_vars

\* Older messages were requested for a viewed chatroom without messages.
C19_Witness ==
    /\ last.op = "loadOlderMessages"
    /\ getActiveChatroom # undefined
    /\ Len(getActiveChatroom[1].messages) = 0
    /\ ~hasMoreMessages
    /\ ~loadingOlder

\* ------------------------------------------------------------------- C20
\* C20: no two messages of the list of older messages have the same id:
\* the list has as many ids as it has messages.
C20_NoDuplicateIds ==
    Cardinality({ olderMessages[k].id : k \in 1..Len(olderMessages) })
      = Len(olderMessages)

\* A page was loaded a second time with an id that was on the list already:
\* the list holds the page twice but for that one message.
C20_Witness ==
    /\ last.op = "setTimeoutCallback"
    /\ Len(olderMessages) = 39
    /\ olderMessages[1].id.page = olderMessages[39].id.page

C22_SyntheticPage ==
    last.op = "generateDummyMessages"
      => /\ Len(olderMessages) = 20
         /\ \A k \in 1..Len(olderMessages) :
               LET m == 20 * last.ret + 20 - k
               IN  /\ olderMessages[k].id.messageIndex = m
                   /\ olderMessages[k].sender
                        = IF m % 3 = 0 THEN "user" ELSE "ai"
                   /\ olderMessages[k].content
                        = << IF m % 3 = 0 THEN "This is user message #"
                             ELSE "This is AI response #", m + 1 >>
         /\ \A k \in 1..(Len(olderMessages) - 1) :
               olderMessages[k + 1].timestamp - olderMessages[k].timestamp
                 = 60000

\* ------------------------------------------------------------------- C23
\* C23: deleteChatroom(id) with the id of a chatroom of the collection
\* removes that chatroom and no other, every other chatroom staying as it
\* was, and leaves isTyping false, whether the chatroom was the active one
\* or not.
C23_DeleteRemovesExactlyOne ==
    [][ \A id \in CallerIds :
          ( deleteChatroom(id) /\ id \in RoomIds(chatrooms) )
          => /\ isTyping' = FALSE
             /\ Len(chatrooms') = Len(chatrooms) - 1
             /\ RoomIds(chatrooms') = RoomIds(chatrooms) \ { id }
             /\ \A i \in 1..Len(chatrooms') :
                   chatrooms'[i] = RoomById(chatrooms, chatrooms'[i].id) ]_vars

\* A chatroom that was not the active one was deleted; another one remains
\* and the typing flag is off.
C23_Witness ==
    /\ last.op = "deleteChatroom"
    /\ last.existed
    /\ ~last.wasActive
    /\ Len(chatrooms) >= 1
    /\ isTyping = FALSE

\* ------------------------------------------------------------------- C24
\* C24: when a load completes, the list of older messages is the list it
\* was with new messages put before it; the new messages are messages of
\* the loaded page, oldest first, with ids that were not on the list, and a
\* message of the page is left out only if its id was on the list; the page
\* counter grows by one and the loading flag is false.
C24_CompletionMergesAtHead ==
    [][ setTimeoutCallback
          => LET added == Len(olderMessages') - Len(olderMessages)
                 closure == Head(timers)
                 first == closure.page * 20
                 oldIds == { olderMessages[k].id :
                               k \in 1..Len(olderMessages) }
                 newIndices == { olderMessages'[k].id.messageIndex :
                                   k \in 1..added }
             IN  /\ added >= 0
                 /\ SubSeq(olderMessages', added + 1, Len(olderMessages'))
                      = olderMessages
                 /\ \A k \in 1..added :
                       /\ olderMessages'[k].id \notin oldIds
                       /\ olderMessages'[k].id.chatroomId = closure.chatroomId
                       /\ olderMessages'[k].id.page = closure.page
                       /\ olderMessages'[k].id.messageIndex
                            \in first..(first + 19)
                       /\ k > 1 => olderMessages'[k].id.messageIndex
                                     < olderMessages'[k - 1].id.messageIndex
                 /\ \A m \in first..(first + 19) :
                       \/ m \in newIndices
                       \/ \E id \in oldIds :
                             /\ id.chatroomId = closure.chatroomId
                             /\ id.page = closure.page
                             /\ id.messageIndex = m
                 /\ page' = page + 1
                 /\ ~loadingOlder' ]_vars

\* A load of a page that was on the list already has completed, one of its
\* messages had an id of the list and was left out.
C24_Witness ==
    /\ last.op = "setTimeoutCallback"
    /\ page = 2
    /\ ~loadingOlder
    /\ Len(olderMessages) = 39
    /\ olderMessages[20].id.page = olderMessages[1].id.page

\* ------------------------------------------------------------------- C25
\* C25: deleteChatroom(id) leaves user, theme, searchQuery and isSidebarOpen
\* as they were; when id names a chatroom that is not the active one, it
\* also leaves activeChatroomId as it was, and the collection is the one it
\* was without that chatroom, the others unchanged and in the same order.
C25_DeleteFrame ==
    [][ \A id \in CallerIds :
          deleteChatroom(id)
          => /\ UNCHANGED << user, theme, searchQuery, isSidebarOpen >>
             /\ ( id \in RoomIds(chatrooms) /\ activeChatroomId # id )
                  => /\ activeChatroomId' = activeChatroomId
                     /\ LET others(room) == room.id # id
                        IN  chatrooms' = SelectSeq(chatrooms, others) ]_vars

\* A chatroom between two others was deleted while it was not the active
\* one, with a search query typed, the dark theme and the sidebar closed.
C25_Witness ==
    /\ last.op = "deleteChatroom"
    /\ last.existed
    /\ ~last.wasActive
    /\ Len(chatrooms) = 2
    /\ activeChatroomId = chatrooms[1].id
    /\ chatrooms[1].id = chatrooms[2].id + 2
    /\ searchQuery # << >>
    /\ theme = "dark"
    /\ ~isSidebarOpen

\* ------------------------------------------------------------------- C26
\* C26: when the timer of a verification runs after Back was pressed on the
\* OTP screen, so that the phone-login screen is shown, the user stays
\* null and the phone-login screen stays shown.
C26_BackCancelsVerification ==
    [][ ( verifyOtpTimeout /\ screen = "phone" )
        => ( ~Authenticated(user') /\ screen' = "phone" ) ]_vars

\* ------------------------------------------------------------------- C30
\* C30: the chat layout is shown exactly when user is non-null with
\* isAuthenticated true, otherwise the OTP screen exactly when otpSent is
\* true and the phone-login screen when it is false; a user that is not
\* authenticated becomes authenticated only in the step of a verification
\* timer, which only a submitted verification sets; and no step makes an
\* authenticated user unauthenticated.
C30_AuthGate ==
    /\ []( /\ screen = "chat"
                <=> ( user # NoUser /\ user[1].isAuthenticated )
           /\ screen # "chat" => ( screen = "otp" <=> otpSent )
           /\ screen # "chat" => ( screen = "phone" <=> ~otpSent ) )
    /\ [][ /\ ( ~Authenticated(user) /\ Authenticated(user') )
                => /\ authTimers # << >>
                   /\ Head(authTimers) = "verifyOtp"
                   /\ authTimers' = Tail(authTimers)
                   /\ user' = Some(MockUser)
           /\ Authenticated(user) => Authenticated(user') ]_vars

\* The user is authenticated and the chat layout is shown while otpSent is
\* true: a phone number was submitted again after Back, and its timer ran
\* after the timer of the verification.
C30_Witness ==
    /\ last.op = "sendOtpTimeout"
    /\ Authenticated(user)
    /\ otpSent
    /\ screen = "chat"

\* ------------------------------------------------------------------- C27
\* C27: when the timer of a reply runs, a message of the AI is appended to
\* the chatroom the user message was sent to, whichever chatroom is active
\* by then, and every other chatroom is as it was; when that chatroom was
\* deleted in the meantime, the step is taken all the same and leaves the
\* collection as it was.
C27_ReplyToItsChatroom ==
    [][ \A handle \in Handles :
          replyTimeout(handle)
          => LET closure ==
                     replyTimers[CHOOSE i \in 1..Len(replyTimers) :
                                    replyTimers[i].handle = handle]
                 to == closure.chatroomId
             IN  /\ Len(chatrooms') = Len(chatrooms)
                 /\ \A j \in 1..Len(chatrooms) :
                       /\ chatrooms'[j].id = chatrooms[j].id
                       /\ chatrooms[j].id # to
                            => chatrooms'[j] = chatrooms[j]
                       /\ chatrooms[j].id = to
                            => LET was == chatrooms[j].messages
                                   is == chatrooms'[j].messages
                               IN  /\ Len(is) = Len(was) + 1
                                   /\ SubSeq(is, 1, Len(was)) = was
                                   /\ is[Len(is)].sender = "ai"
                 /\ to \notin RoomIds(chatrooms)
                      => chatrooms' = chatrooms ]_vars

\* The reply went to a chatroom that was not the active one when the timer
\* ran, and another chatroom got nothing.
C27_Witness ==
    /\ last.op = "replyTimeout"
    /\ last.existed
    /\ ~last.wasActive
    /\ Len(chatrooms) = 2
    /\ \E j \in 1..2 :
          /\ chatrooms[j].id = last.id
          /\ Len(chatrooms[j].messages) = 2
          /\ chatrooms[j].messages[2].sender = "ai"
          /\ chatrooms[3 - j].id = activeChatroomId
          /\ chatrooms[3 - j].messages = << >>

\* ------------------------------------------------------------------- C28
\* C28: while the timer of a reply is set and has not run, isTyping is
\* true, and at most one timer of a reply is pending at any time.
C28_AtMostOnePendingReply ==
    /\ replyTimers # << >> => isTyping
    /\ Len(replyTimers) <= 1

\* ------------------------------------------------------------------- C29
\* C29: a timer of a reply that is set runs, and runs once: the timer is
\* pending after the send, eventually it is not, and a handle that ran is
\* never pending again; isTyping is false after a timer ran, whenever
\* isTyping is true it is false later, and it is false once no timer is
\* pending.
C29_TypingEnds ==
    /\ \A handle \in Handles :
          ( \E i \in 1..Len(replyTimers) : replyTimers[i].handle = handle )
            ~> ( \A i \in 1..Len(replyTimers) :
                    replyTimers[i].handle # handle )
    /\ [][ \A handle \in Handles :
             /\ replyTimeout(handle) => ~isTyping'
             /\ ( \E i \in 1..Len(replyTimers') :
                     replyTimers'[i].handle = handle )
                  => \/ \E i \in 1..Len(replyTimers) :
                           replyTimers[i].handle = handle
                     \/ handle > uuids ]_vars
    /\ isTyping ~> ~isTyping
    /\ []( replyTimers = << >> => ~isTyping )

\* The timer of a message has run: its reply is in the chatroom, isTyping
\* is false and no timer is pending.
C29_Witness ==
    /\ last.op = "replyTimeout"
    /\ last.existed
    /\ ~isTyping
    /\ replyTimers = << >>
    /\ \E j \in 1..Len(chatrooms) :
          /\ chatrooms[j].id = last.id
          /\ Len(chatrooms[j].messages) = 2
          /\ chatrooms[j].messages[1].sender = "user"
          /\ chatrooms[j].messages[2].sender = "ai"

====
